---- MODULE Spec2Model ----
(***************************************************************************)
(* Model of plaso/storage/json_streaming_writer.py:                        *)
(* JSONStreamingStorageWriter, a storage writer that forwards every        *)
(* attribute container to a real (sqlite) storage writer and prints one    *)
(* JSON line per event container.                                          *)
(***************************************************************************)
EXTENDS Integers, Sequences, FiniteSets, TLC

VARIABLES
  output_file,   \* self._output_file: "None" or "file"
  store_open,    \* self._store / the real storage writer's store is set
  temp_file,     \* the temporary .plaso file exists
  store,         \* containers in the real storage writer's store, per type
  last           \* what the most recent call did (observation record)

vars == <<output_file, store_open, temp_file, store, last>>

\* ------------------------------------------------------------------------
\* Bounds
\* ------------------------------------------------------------------------
\* attribute containers the store holds at most
MaxStored == 3

\* ------------------------------------------------------------------------
\* Attribute values.  A value is a record that keeps its python type
\* ("str", "ident", "dt", "dtlist", "dict", "null", "map") and where it
\* came from, so that a raw copy, a formatted field and a serialized dict
\* of the same attribute are three different values.
\* ------------------------------------------------------------------------
None == [kind |-> "None"]

RawValue(kind, name, type) == [src |-> kind, name |-> name, type |-> type]

ConstValue(string) == [src |-> "const", name |-> string, type |-> "str"]

\* json_serializer.JSONAttributeContainerSerializer.WriteSerializedDict
WriteSerializedDict(value) ==
  [src |-> "WriteSerializedDict", name |-> value.name, type |-> "dict",
   of |-> value.src]

\* isinstance(value, interface.AttributeContainerIdentifier)
IsIdentifier(type) == type = "ident"

\* isinstance(value, dfdatetime_interface.DateTimeValues)
IsDateTimeValues(type) == type = "dt"

\* isinstance(value, list) and value and isinstance(value[0], DateTimeValues)
IsDateTimeList(type) == type = "dtlist"

\* attribute_name[0] == '_', over the attribute names of the model
ProtectedNames ==
  {"_parser_chain", "_internal", "__type__", "__container_type__",
   "_event_data_identifier", "_event_data_stream_identifier",
   "_event_tag_identifier", "_event_identifier"}

StartsWithUnderscore(name) == name \in ProtectedNames

\* ------------------------------------------------------------------------
\* Attribute containers.  kind is CONTAINER_TYPE; shape names the set of
\* attributes the container carries (GetAttributes below); data, stream
\* and tag are the identifiers the container refers to (0: the identifier
\* is None or the container has no such getter).
\* ------------------------------------------------------------------------
Container(kind, shape, data, stream, tag) ==
  [kind |-> kind, shape |-> shape, data |-> data, stream |-> stream,
   tag |-> tag]

\* an event without identifiers, and two that refer to the first event
\* data and the first event tag of the store (there or not)
Events ==
  {Container("event", "plain", 0, 0, 0),
   Container("event", "plain", 1, 0, 1),
   Container("event", "odd", 1, 0, 1)}

EventDatas ==
  {Container("event_data", "plain", 0, 1, 0),
   Container("event_data", "odd", 0, 0, 0)}

EventDataStreams ==
  {Container("event_data_stream", shape, 0, 0, 0) :
     shape \in {"plain", "odd"}}

EventTags ==
  {Container("event_tag", shape, 0, 0, 0) : shape \in {"plain", "odd"}}

Containers == Events \cup EventDatas \cup EventDataStreams \cup EventTags

\* container.GetAttributes(): the (name, type of the value) pairs, in order
GetAttributes(container) ==
  CASE container.kind = "event" /\ container.shape = "plain" ->
         << <<"date_time", "dt">>, <<"timestamp", "str">> >>
           \o (IF container.data = 0 THEN <<>>
               ELSE << <<"_event_data_identifier", "ident">> >>)
           \o (IF container.tag = 0 THEN <<>>
               ELSE << <<"_event_tag_identifier", "ident">> >>)
    [] container.kind = "event" /\ container.shape = "odd" ->
         << <<"name", "str">>, <<"message", "str">>,
            <<"display_name", "str">>, <<"tag", "str">>,
            <<"__type__", "str">>, <<"path_spec", "str">>,
            <<"_parser_chain", "str">>, <<"recorded", "dt">> >>
    [] container.kind = "event_data" /\ container.shape = "plain" ->
         << <<"name", "str">>, <<"_parser_chain", "str">>,
            <<"_internal", "str">>,
            <<"_event_data_stream_identifier", "ident">> >>
    [] container.kind = "event_data" /\ container.shape = "odd" ->
         << <<"written", "dt">>, <<"times", "dtlist">>,
            <<"display_name", "str">>, <<"path_spec", "str">>,
            <<"timestamp", "str">>, <<"date_time", "str">>,
            <<"message", "str">>, <<"tag", "str">> >>
    [] container.kind = "event_data_stream" /\ container.shape = "plain" ->
         << <<"path_spec", "str">>, <<"md5_hash", "str">>,
            <<"timestamp", "str">> >>
    [] container.kind = "event_data_stream" /\ container.shape = "odd" ->
         << <<"__type__", "str">>, <<"origin", "ident">>,
            <<"created", "dt">>, <<"_event_data_identifier", "str">>,
            <<"inode", "null">> >>
    [] container.kind = "event_tag" /\ container.shape = "plain" ->
         << <<"labels", "str">>, <<"_event_identifier", "ident">> >>
    [] container.kind = "event_tag" /\ container.shape = "odd" ->
         << <<"labels", "str">>, <<"applied", "dt">> >>
    [] OTHER -> <<>>

\* ------------------------------------------------------------------------
\* The field formatting helper (shared_json.JSONFieldFormattingHelper).
\* Its rendering rules are outside this file: per call of
\* AddAttributeContainer the helper raises for at most one field name
\* (fmt.raise), returns None for at most one (fmt.null) and returns a
\* formatted value for every other name.
\* ------------------------------------------------------------------------
NoField == "-"

FormatterBehaviours ==
  [raise : {NoField, "name", "inode", "message"},
   null : {NoField, "display_name"}]

NoFormatting == [raise |-> NoField, null |-> NoField]

GetFormattedFieldRaises(fmt, field_name) == field_name = fmt.raise

GetFormattedField(fmt, field_name) ==
  [src |-> "GetFormattedField", name |-> field_name,
   type |-> IF field_name = fmt.null THEN "null" ELSE "str"]

\* field_values[key] = value
SetField(field_values, key, value) == (key :> value) @@ field_values

\* A merge in progress: raised is set once GetFormattedField has raised,
\* and nothing is executed after that.
Merge(raised, field_values) ==
  [raised |-> raised, field_values |-> field_values]

\* ------------------------------------------------------------------------
\* _GetFieldValues
\* ------------------------------------------------------------------------
SeedFieldValues ==
  ("__container_type__" :> ConstValue("event"))
    @@ ("__type__" :> ConstValue("AttributeContainer"))

\* an event data loop that copies the attribute value as it is
EventDataAttribute_Raw(m, attribute, fmt) ==
  LET attribute_name == attribute[1]
      attribute_type == attribute[2]
  IN  IF m.raised THEN m
      ELSE IF IsIdentifier(attribute_type)
                \/ IsDateTimeValues(attribute_type) THEN m
      ELSE IF IsDateTimeList(attribute_type) THEN m
      ELSE IF StartsWithUnderscore(attribute_name)
                /\ attribute_name # "_parser_chain" THEN m
      ELSE Merge(FALSE,
             SetField(m.field_values,
               IF attribute_name = "_parser_chain" THEN "parser"
                                                   ELSE attribute_name,
               RawValue("event_data", attribute_name, attribute_type)))

\* the body of the loop over event_data.GetAttributes()
EventDataAttribute(m, attribute, fmt) ==
  LET attribute_name == attribute[1]
      attribute_type == attribute[2]
  IN  IF m.raised THEN m
      ELSE IF IsIdentifier(attribute_type)
                \/ IsDateTimeValues(attribute_type) THEN m
      ELSE IF IsDateTimeList(attribute_type) THEN m
      ELSE IF StartsWithUnderscore(attribute_name)
                /\ attribute_name # "_parser_chain" THEN m
      ELSE IF GetFormattedFieldRaises(fmt, attribute_name)
             THEN Merge(TRUE, m.field_values)
      ELSE Merge(FALSE,
             SetField(m.field_values,
               IF attribute_name = "_parser_chain" THEN "parser"
                                                   ELSE attribute_name,
               GetFormattedField(fmt, attribute_name)))

\* the body of the loop over event_data_stream.GetAttributes()
EventDataStreamAttribute(m, attribute) ==
  LET attribute_name == attribute[1]
      attribute_value ==
        RawValue("event_data_stream", attribute[1], attribute[2])
  IN  IF m.raised THEN m
      ELSE IF attribute_name = "path_spec"
             THEN Merge(FALSE,
                    SetField(m.field_values, "pathspec",
                             WriteSerializedDict(attribute_value)))
      ELSE Merge(FALSE,
             SetField(m.field_values, attribute_name, attribute_value))

\* an event loop that does not skip identifiers
EventAttribute_KeepsIdentifiers(m, attribute) ==
  IF m.raised THEN m
  ELSE Merge(FALSE,
         SetField(m.field_values, attribute[1],
                  RawValue("event", attribute[1], attribute[2])))

\* an event loop that keeps what an earlier loop has set
EventAttribute_KeepsExisting(m, attribute) ==
  IF m.raised \/ IsIdentifier(attribute[2]) THEN m
  ELSE IF attribute[1] \in DOMAIN m.field_values THEN m
  ELSE Merge(FALSE,
         SetField(m.field_values, attribute[1],
                  IF attribute[1] = "date_time"
                    THEN WriteSerializedDict(
                           RawValue("event", attribute[1], attribute[2]))
                    ELSE RawValue("event", attribute[1], attribute[2])))

\* the body of the loop over event.GetAttributes()
EventAttribute(m, attribute) ==
  LET attribute_name == attribute[1]
      attribute_value == RawValue("event", attribute[1], attribute[2])
  IN  IF m.raised THEN m
      ELSE IF IsIdentifier(attribute[2]) THEN m
      ELSE IF attribute_name = "date_time"
             THEN Merge(FALSE,
                    SetField(m.field_values, attribute_name,
                             WriteSerializedDict(attribute_value)))
      ELSE Merge(FALSE,
             SetField(m.field_values, attribute_name, attribute_value))

\* the body of the loop over ['display_name', 'filename', 'inode']
GeneratedField(m, field_name, fmt) ==
  IF m.raised THEN m
  ELSE IF field_name \notin DOMAIN m.field_values
         THEN \* field_values.get(field_name, None) is None here
              IF GetFormattedFieldRaises(fmt, field_name)
                THEN Merge(TRUE, m.field_values)
                ELSE Merge(FALSE,
                       SetField(m.field_values, field_name,
                                GetFormattedField(fmt, field_name)))
  ELSE m

GeneratedFieldNames == <<"display_name", "filename", "inode">>

\* field_values['message'] = GetFormattedField(..., 'message', ...)
MessageField(m, fmt) ==
  IF m.raised THEN m
  ELSE IF GetFormattedFieldRaises(fmt, "message")
         THEN Merge(TRUE, m.field_values)
  ELSE Merge(FALSE,
         SetField(m.field_values, "message",
                  GetFormattedField(fmt, "message")))

SeedEventTagValues ==
  ("__container_type__" :> ConstValue("event_tag"))
    @@ ("__type__" :> ConstValue("AttributeContainer"))

\* the body of the loop over event_tag.GetAttributes()
EventTagAttribute(event_tag_values, attribute) ==
  IF IsIdentifier(attribute[2]) THEN event_tag_values
  ELSE SetField(event_tag_values, attribute[1],
                RawValue("event_tag", attribute[1], attribute[2]))

RECURSIVE EventTagValues(_, _, _)
EventTagValues(attrs, i, event_tag_values) ==
  IF i > Len(attrs) THEN event_tag_values
  ELSE EventTagValues(attrs, i + 1,
         EventTagAttribute(event_tag_values, attrs[i]))

\* a tag step that leaves a tag key of an earlier step alone
TagField_KeepsExisting(m, event_tag) ==
  IF m.raised \/ event_tag = None THEN m
  ELSE IF "tag" \in DOMAIN m.field_values THEN m
  ELSE Merge(FALSE,
         SetField(m.field_values, "tag",
           [src |-> "event_tag", name |-> "tag", type |-> "map",
            map |-> EventTagValues(GetAttributes(event_tag), 1,
                                   SeedEventTagValues)]))

\* field_values['tag'] = event_tag_values
TagField(m, event_tag) ==
  IF m.raised \/ event_tag = None THEN m
  ELSE Merge(FALSE,
         SetField(m.field_values, "tag",
           [src |-> "event_tag", name |-> "tag", type |-> "map",
            map |-> EventTagValues(GetAttributes(event_tag), 1,
                                   SeedEventTagValues)]))

RECURSIVE EventDataLoop(_, _, _, _)
EventDataLoop(attrs, i, m, fmt) ==
  IF i > Len(attrs) THEN m
  ELSE EventDataLoop(attrs, i + 1, EventDataAttribute(m, attrs[i], fmt),
                     fmt)

RECURSIVE EventDataStreamLoop(_, _, _)
EventDataStreamLoop(attrs, i, m) ==
  IF i > Len(attrs) THEN m
  ELSE EventDataStreamLoop(attrs, i + 1,
                           EventDataStreamAttribute(m, attrs[i]))

RECURSIVE EventLoop(_, _, _)
EventLoop(attrs, i, m) ==
  IF i > Len(attrs) THEN m
  ELSE EventLoop(attrs, i + 1, EventAttribute(m, attrs[i]))

RECURSIVE GeneratedLoop(_, _, _)
GeneratedLoop(i, m, fmt) ==
  IF i > Len(GeneratedFieldNames) THEN m
  ELSE GeneratedLoop(i + 1, GeneratedField(m, GeneratedFieldNames[i], fmt),
                     fmt)

GetFieldValues(event, event_data, event_data_stream, event_tag, fmt) ==
  LET m0 == Merge(FALSE, SeedFieldValues)
      m1 == IF event_data = None THEN m0
            ELSE EventDataLoop(GetAttributes(event_data), 1, m0, fmt)
      m2 == IF event_data_stream = None THEN m1
            ELSE EventDataStreamLoop(GetAttributes(event_data_stream), 1,
                                     m1)
      m3 == EventLoop(GetAttributes(event), 1, m2)
      m4 == GeneratedLoop(1, m3, fmt)
      m5 == MessageField(m4, fmt)
  IN  TagField(m5, event_tag)

\* ------------------------------------------------------------------------
\* The real storage writer (storage_factory ... CreateStorageWriter) that
\* the writer delegates to.  Its store keeps the containers per type; the
\* identifier of a container is its sequence number within its type.
\* ------------------------------------------------------------------------
ContainerTypes == {"event", "event_data", "event_data_stream", "event_tag"}

EmptyStore == [t \in ContainerTypes |-> <<>>]

\* GetNumberOfAttributeContainers summed over the types
NumberOfAttributeContainers(s) ==
  Len(s["event"]) + Len(s["event_data"]) + Len(s["event_data_stream"])
    + Len(s["event_tag"])

\* GetAttributeContainerByIdentifier inside try/except Exception: pass.
\* No identifier, no lookup.  A lookup that raises, as every lookup does
\* without an open store, leaves the variable None.
LookupOrNone(container_type, identifier, lookup_fault) ==
  IF identifier = 0 THEN None
  ELSE IF ~store_open \/ lookup_fault = container_type THEN None
  ELSE IF identifier > Len(store[container_type]) THEN None
  ELSE store[container_type][identifier]

\* StorageWriter._RaiseIfNotWritable of the real storage writer
RealWriterNotWritable == ~store_open

\* ------------------------------------------------------------------------
\* json.JSONEncoder(ensure_ascii=False, sort_keys=True).encode and print
\* ------------------------------------------------------------------------
SerializableTypes == {"str", "dict", "null"}

\* the default encoder raises TypeError on an identifier or date time object
JSONEncodable(field_values) ==
  \A k \in DOMAIN field_values :
    IF field_values[k].type = "map"
      THEN \A n \in DOMAIN field_values[k].map :
             field_values[k].map[n].type \in SerializableTypes
      ELSE field_values[k].type \in SerializableTypes

\* what else can go wrong in the try block: the encoder raises on a value
\* the model does not tell apart ("encode"), or print raises ("write")
EmitFaults == {"none", "encode", "write"}

\* the try block around encode and print raises
TryBlockRaises(field_values, emit_fault) ==
  emit_fault # "none" \/ ~JSONEncodable(field_values)

\* print(json_string, flush=True): where the line goes.  print has no
\* file argument, self._output_file is not read.
PrintedTo(target) == "stdout"

\* ------------------------------------------------------------------------
\* Observation of a call
\* ------------------------------------------------------------------------
NoCall ==
  [op |-> "None", container |-> None, was_open |-> FALSE,
   was_closed |-> FALSE, raised |-> "None", field_values |-> None,
   event_data |-> None, event_data_stream |-> None, event_tag |-> None,
   emit |-> "none", line_to |-> "None", store_result |-> "not called",
   args |-> <<>>, result |-> None, lookup_fault |-> NoField]

Call(op, container) ==
  [NoCall EXCEPT !.op = op, !.container = container,
                 !.was_open = store_open, !.was_closed = ~temp_file]

Init ==
  /\ output_file \in {"None", "file"}
  /\ store_open = FALSE
  /\ temp_file = TRUE
  /\ store = EmptyStore
  /\ last = NoCall

\* ------------------------------------------------------------------------
\* Open, Close
\* ------------------------------------------------------------------------
\* The writer checks nothing before it calls Open of the real storage
\* writer with the name of its temporary file: whether that call raises,
\* on an open store as on a new or closed one, is up to the real storage
\* writer.  When it does not raise on a closed writer there is a store
\* again, at the path of the file that Close removed.
Open(open_raises) ==
  /\ IF open_raises
       THEN /\ last' = [Call("Open", None) EXCEPT !.raised = "IOError"]
            /\ UNCHANGED <<store_open, temp_file, store>>
     ELSE IF store_open
       THEN /\ last' = Call("Open", None)
            /\ UNCHANGED <<store_open, temp_file, store>>
       ELSE /\ store_open' = TRUE
            /\ temp_file' = TRUE
            /\ store' = IF temp_file THEN store ELSE EmptyStore
            /\ last' = Call("Open", None)
  /\ UNCHANGED output_file

Close(not_open_raises) ==
  /\ IF ~store_open /\ not_open_raises
       THEN /\ last' = [Call("Close", None) EXCEPT !.raised = "IOError"]
            /\ UNCHANGED <<store_open, temp_file, store>>
       ELSE /\ store_open' = FALSE
            /\ temp_file' = FALSE
            /\ store' = EmptyStore
            /\ last' = Call("Close", None)
  /\ UNCHANGED output_file

\* ------------------------------------------------------------------------
\* AddAttributeContainer
\* ------------------------------------------------------------------------
\* self._real_storage_writer.AddAttributeContainer(container)
\* a forward that swallows what the store raises
Forward_Swallowed(call, container, store_fails) ==
  IF RealWriterNotWritable
    THEN /\ last' = [call EXCEPT !.store_result = "IOError"]
         /\ store' = store
  ELSE IF store_fails
    THEN /\ last' = [call EXCEPT !.store_result = "StoreError"]
         /\ store' = store
  ELSE /\ last' = [call EXCEPT !.store_result = "ok"]
       /\ store' = [store EXCEPT ![container.kind] = Append(@, container)]

\* store_result is what the real storage writer did with the call, raised
\* is what the caller of the writer gets.
Forward(call, container, store_fails) ==
  IF RealWriterNotWritable
    THEN /\ last' = [call EXCEPT !.store_result = "IOError",
                                 !.raised = "IOError"]
         /\ store' = store
  ELSE IF store_fails
    THEN /\ last' = [call EXCEPT !.store_result = "StoreError",
                                 !.raised = "StoreError"]
         /\ store' = store
  ELSE /\ last' = [call EXCEPT !.store_result = "ok"]
       /\ store' = [store EXCEPT ![container.kind] = Append(@, container)]

\* a try block that lets the exception out
TryBlock_NoExcept(call, field_values, emit_fault) ==
  IF TryBlockRaises(field_values, emit_fault)
    THEN [call EXCEPT !.field_values = field_values, !.emit = "raised",
                      !.raised = "EncodeError"]
    ELSE [call EXCEPT !.field_values = field_values, !.emit = "ok",
                      !.line_to = PrintedTo(output_file)]

\* try: json_string = encode(field_values); print(json_string, flush=True)
\* except Exception: pass
TryBlock(call, field_values, emit_fault) ==
  IF TryBlockRaises(field_values, emit_fault)
    THEN [call EXCEPT !.field_values = field_values, !.emit = "raised"]
    ELSE [call EXCEPT !.field_values = field_values, !.emit = "ok",
                      !.line_to = PrintedTo(output_file)]

\* an event block whose lookups are not inside try/except
Project_LookupUnguarded(call, event, fmt, emit_fault, lookup_fault) ==
  LET event_data == LookupOrNone("event_data", event.data, lookup_fault)
      event_data_stream ==
        IF event_data = None THEN None
        ELSE LookupOrNone("event_data_stream", event_data.stream,
                          lookup_fault)
      event_tag == LookupOrNone("event_tag", event.tag, lookup_fault)
      m == GetFieldValues(event, event_data, event_data_stream, event_tag,
                          fmt)
      resolved == [call EXCEPT !.event_data = event_data,
                               !.event_data_stream = event_data_stream,
                               !.event_tag = event_tag,
                               !.lookup_fault = lookup_fault]
  IN  IF lookup_fault # NoField
        THEN [call EXCEPT !.lookup_fault = lookup_fault,
                          !.raised = "LookupError"]
      ELSE IF m.raised
        THEN [resolved EXCEPT !.raised = "FormatError"]
        ELSE TryBlock(resolved, m.field_values, emit_fault)

\* the if container.CONTAINER_TYPE == 'event' block
Project(call, event, fmt, emit_fault, lookup_fault) ==
  LET event_data == LookupOrNone("event_data", event.data, lookup_fault)
      event_data_stream ==
        IF event_data = None THEN None
        ELSE LookupOrNone("event_data_stream", event_data.stream,
                          lookup_fault)
      event_tag == LookupOrNone("event_tag", event.tag, lookup_fault)
      m == GetFieldValues(event, event_data, event_data_stream, event_tag,
                          fmt)
      resolved == [call EXCEPT !.event_data = event_data,
                               !.event_data_stream = event_data_stream,
                               !.event_tag = event_tag,
                               !.lookup_fault = lookup_fault]
  IN  IF m.raised
        THEN [resolved EXCEPT !.raised = "FormatError"]
        ELSE TryBlock(resolved, m.field_values, emit_fault)

\* an add that hands the container to the store before it projects it
AddAttributeContainer_ForwardFirst(container, fmt, emit_fault, store_fails, lookup_fault) ==
  /\ store_open => NumberOfAttributeContainers(store) < MaxStored
  /\ LET call == Call("AddAttributeContainer", container)
         projected == IF container.kind = "event"
                        THEN Project(call, container, fmt, emit_fault,
                                     lookup_fault)
                        ELSE call
     IN  IF RealWriterNotWritable \/ store_fails
           THEN Forward(call, container, store_fails)
           ELSE /\ last' = [projected EXCEPT !.store_result = "ok"]
                /\ store' = [store EXCEPT ![container.kind] =
                               Append(@, container)]
  /\ UNCHANGED <<output_file, store_open, temp_file>>

AddAttributeContainer(container, fmt, emit_fault, store_fails, lookup_fault) ==
  /\ store_open => NumberOfAttributeContainers(store) < MaxStored
  /\ LET call == Call("AddAttributeContainer", container)
         projected == IF container.kind = "event"
                        THEN Project(call, container, fmt, emit_fault,
                                     lookup_fault)
                        ELSE call
     IN  IF projected.raised # "None"
           THEN last' = projected /\ store' = store
           ELSE Forward(projected, container, store_fails)
  /\ UNCHANGED <<output_file, store_open, temp_file>>

\* ------------------------------------------------------------------------
\* UpdateAttributeContainer
\* ------------------------------------------------------------------------
\* an update that prints a line for the event it has updated
UpdateAttributeContainer_Reprojects(index, container, store_fails) ==
  /\ LET call == Call("UpdateAttributeContainer", container)
     IN  IF RealWriterNotWritable
           THEN /\ last' = [call EXCEPT !.store_result = "IOError",
                                        !.raised = "IOError"]
                /\ store' = store
         ELSE IF store_fails \/ index > Len(store[container.kind])
           THEN /\ last' = [call EXCEPT !.store_result = "StoreError",
                                        !.raised = "StoreError"]
                /\ store' = store
         ELSE /\ last' = IF container.kind = "event"
                           THEN [call EXCEPT !.store_result = "ok",
                                   !.emit = "ok",
                                   !.line_to = PrintedTo(output_file)]
                           ELSE [call EXCEPT !.store_result = "ok"]
              /\ store' = [store EXCEPT ![container.kind][index] =
                             container]
  /\ UNCHANGED <<output_file, store_open, temp_file>>

\* container carries the identifier of the index-th container of its type
UpdateAttributeContainer(index, container, store_fails) ==
  /\ LET call == Call("UpdateAttributeContainer", container)
     IN  IF RealWriterNotWritable
           THEN /\ last' = [call EXCEPT !.store_result = "IOError",
                                        !.raised = "IOError"]
                /\ store' = store
         ELSE IF store_fails \/ index > Len(store[container.kind])
           THEN /\ last' = [call EXCEPT !.store_result = "StoreError",
                                        !.raised = "StoreError"]
                /\ store' = store
         ELSE /\ last' = [call EXCEPT !.store_result = "ok"]
              /\ store' = [store EXCEPT ![container.kind][index] =
                             container]
  /\ UNCHANGED <<output_file, store_open, temp_file>>

\* ------------------------------------------------------------------------
\* The readers: return self._real_storage_writer.<reader>(...)
\* ------------------------------------------------------------------------
ReadNumbers == 1..2

\* the container types the readers are asked for
ReadTypes == {"event_data", "event_tag"}

\* What the real storage writer answers.  Identifiers count from 1, indexes
\* from 0; the written-container readers answer from a cursor that the
\* real storage writer keeps, which is an input here.  Without an open
\* store every reader raises.
RealStorageWriterRead(op, container_type, number) ==
  IF ~store_open THEN [raised |-> "IOError", result |-> None]
  ELSE [raised |-> "None",
        result |->
          CASE op = "GetNumberOfAttributeContainers" ->
                 [kind |-> "number", number |-> Len(store[container_type])]
            [] op = "GetAttributeContainers" ->
                 [kind |-> "list", list |-> store[container_type]]
            [] op = "GetAttributeContainerByIdentifier" ->
                 IF number <= Len(store[container_type])
                   THEN store[container_type][number] ELSE None
            [] op = "GetAttributeContainerByIndex" ->
                 IF number + 1 <= Len(store[container_type])
                   THEN store[container_type][number + 1] ELSE None
            [] op \in {"GetFirstWrittenEventSource",
                       "GetNextWrittenEventSource"} -> None
            [] op = "GetFirstWrittenEventData" ->
                 IF store["event_data"] # <<>>
                   THEN store["event_data"][1] ELSE None
            [] op = "GetNextWrittenEventData" ->
                 IF number <= Len(store["event_data"])
                   THEN store["event_data"][number] ELSE None]

\* a reader that drops what the real storage writer returned
Read_ResultDropped(op, args) ==
  LET answer == RealStorageWriterRead(op, args[1], args[2])
  IN  /\ last' = [Call(op, None) EXCEPT !.args = args,
                                        !.raised = answer.raised]
      /\ UNCHANGED <<output_file, store_open, temp_file, store>>

\* return self._real_storage_writer.<op>(<args>)
Read(op, args) ==
  LET answer == RealStorageWriterRead(op, args[1], args[2])
  IN  /\ last' = [Call(op, None) EXCEPT !.args = args,
                                        !.raised = answer.raised,
                                        !.result = answer.result]
      /\ UNCHANGED <<output_file, store_open, temp_file, store>>

GetNumberOfAttributeContainers(container_type) ==
  Read("GetNumberOfAttributeContainers", <<container_type, 0>>)

GetAttributeContainers(container_type) ==
  Read("GetAttributeContainers", <<container_type, 0>>)

GetAttributeContainerByIdentifier(container_type, identifier) ==
  Read("GetAttributeContainerByIdentifier", <<container_type, identifier>>)

GetAttributeContainerByIndex(container_type, index) ==
  Read("GetAttributeContainerByIndex", <<container_type, index>>)

GetFirstWrittenEventSource ==
  Read("GetFirstWrittenEventSource", <<"event_source", 0>>)

GetNextWrittenEventSource ==
  Read("GetNextWrittenEventSource", <<"event_source", 0>>)

GetFirstWrittenEventData ==
  Read("GetFirstWrittenEventData", <<"event_data", 0>>)

GetNextWrittenEventData(cursor) ==
  Read("GetNextWrittenEventData", <<"event_data", cursor>>)

\* the lookups of AddAttributeContainer that can raise
LookupFaults ==
  {NoField, "event_data", "event_data_stream", "event_tag"}

\* the lookup of container_type is made for this event
LookupAttempted(event, container_type) ==
  CASE container_type = "event_data" -> event.data # 0
    [] container_type = "event_tag" -> event.tag # 0
    [] container_type = "event_data_stream" ->
         /\ LookupOrNone("event_data", event.data, NoField) # None
         /\ LookupOrNone("event_data", event.data, NoField).stream # 0

\* What goes wrong in one call: one thing at most.
Faults ==
  {f \in [fmt : FormatterBehaviours, emit_fault : EmitFaults,
          store_fails : BOOLEAN, lookup_fault : LookupFaults] :
     Cardinality({x \in {"raise", "null", "emit", "store", "lookup"} :
        \/ x = "raise" /\ f.fmt.raise # NoField
        \/ x = "null" /\ f.fmt.null # NoField
        \/ x = "emit" /\ f.emit_fault # "none"
        \/ x = "store" /\ f.store_fails
        \/ x = "lookup" /\ f.lookup_fault # NoField}) <= 1}

OpenWriter == \E open_raises \in BOOLEAN : Open(open_raises)

CloseWriter == \E not_open_raises \in BOOLEAN : Close(not_open_raises)

AddEvent == \E container \in Events, f \in Faults :
  /\ f.store_fails => store_open
  /\ f.lookup_fault # NoField =>
       store_open /\ LookupAttempted(container, f.lookup_fault)
  /\ AddAttributeContainer(container, f.fmt, f.emit_fault, f.store_fails,
                           f.lookup_fault)

AddOther == \E container \in Containers \ Events, store_fails \in BOOLEAN :
  /\ store_fails => store_open
  /\ AddAttributeContainer(container, NoFormatting, "none", store_fails,
                           NoField)

Update == \E index \in 1..MaxStored, container \in Containers,
             store_fails \in BOOLEAN :
  /\ store_fails => store_open
  /\ IF store_open THEN index <= Len(store[container.kind]) ELSE index = 1
  /\ UpdateAttributeContainer(index, container, store_fails)

GetNumber == \E container_type \in ReadTypes :
  GetNumberOfAttributeContainers(container_type)

GetContainers == \E container_type \in ReadTypes :
  GetAttributeContainers(container_type)

GetByIdentifier == \E container_type \in ReadTypes,
                      identifier \in ReadNumbers :
  GetAttributeContainerByIdentifier(container_type, identifier)

GetByIndex == \E container_type \in ReadTypes, index \in ReadNumbers :
  GetAttributeContainerByIndex(container_type, index)

GetNextEventData == \E cursor \in ReadNumbers :
  GetNextWrittenEventData(cursor)

Next ==
  \/ OpenWriter \/ CloseWriter \/ AddEvent \/ AddOther \/ Update
  \/ GetNumber \/ GetContainers \/ GetByIdentifier \/ GetByIndex
  \/ GetFirstWrittenEventSource \/ GetNextWrittenEventSource
  \/ GetFirstWrittenEventData \/ GetNextEventData

Spec == Init /\ [][Next]_vars

\* ------------------------------------------------------------------------
\* Properties
\* ------------------------------------------------------------------------
IsAdd == last.op = "AddAttributeContainer"

IsUpdate == last.op = "UpdateAttributeContainer"

IsEventAdd == IsAdd /\ last.container.kind = "event"

\* the call built a field value map
MapProduced == IsEventAdd /\ last.field_values # None

\* the real storage writer was handed the container
Forwarded == last.store_result # "not called"

\* what the real storage writer can raise
StoreFailures == {"IOError", "StoreError"}

\* the container of the call is the newest of its type in the store
Stored ==
  /\ store[last.container.kind] # <<>>
  /\ store[last.container.kind][Len(store[last.container.kind])]
       = last.container

MarkerNames == {"__container_type__", "__type__"}

\* C1: a formatter failure during the merge of an event added to an open
\* writer does not escape AddAttributeContainer, and the event is still
\* forwarded to the real storage writer in that call.
C1_FormatterFailureContained ==
  (IsEventAdd /\ last.was_open) =>
    (last.raised # "FormatError" /\ Forwarded)

\* C2: when the try block around encode and print raises for an event, the
\* call raises nothing of its own (only what the store raises), prints no
\* line and hands the event to the store, which keeps it unless the store
\* itself fails; and the call after it is processed as any other: it is
\* forwarded unless its own formatter raises, stored when the store
\* accepts it, and printed when its own try block does not raise.
C2_EncodingFailureContained ==
  /\ [](IsEventAdd /\ last.emit = "raised" =>
          /\ last.line_to = "None"
          /\ Forwarded
          /\ last.raised = (IF last.store_result \in StoreFailures
                              THEN last.store_result ELSE "None")
          /\ (last.store_result = "ok" => Stored))
  /\ [][(IsEventAdd /\ last.emit = "raised"
          /\ last'.op = "AddAttributeContainer") =>
          /\ (last'.raised # "FormatError" =>
                last'.store_result # "not called")
          /\ (last'.was_open /\ last'.raised = "None" =>
                /\ last'.store_result = "ok"
                /\ store'[last'.container.kind] # <<>>
                /\ store'[last'.container.kind][
                     Len(store'[last'.container.kind])] = last'.container)
          /\ (last'.emit = "ok" => last'.line_to # "None")]_vars

C2_Witness ==
  /\ IsEventAdd /\ last.was_open
  /\ last.emit = "raised" /\ last.line_to = "None"
  /\ last.raised = "None" /\ Stored

\* C3: what the real storage writer raises in AddAttributeContainer is what
\* the caller gets, for every container type, also when the line of the
\* same call was printed.
C3_StoreFailurePropagated ==
  (IsAdd /\ last.store_result \in StoreFailures) =>
    last.raised = last.store_result

C3_Witness ==
  /\ IsEventAdd /\ last.was_open
  /\ last.line_to # "None"
  /\ last.store_result = "StoreError" /\ last.raised = "StoreError"

\* C4: AddAttributeContainer and UpdateAttributeContainer on a writer that
\* is not open (not yet opened, or closed) raise the not-writable IOError,
\* for every container type.
C4_RejectedWhenNotOpen ==
  ((IsAdd \/ IsUpdate) /\ ~last.was_open) => last.raised = "IOError"

\* C5: AddAttributeContainer of an event on a writer that is not open
\* prints no JSON line and writes nothing to the store.
C5_NoLineWhenNotOpen ==
  (IsEventAdd /\ ~last.was_open) =>
    (last.line_to = "None" /\ last.store_result # "ok")

\* C6: every printed line goes to the configured sink: the output file the
\* writer was constructed with, standard output when there is none.
C6_LineToConfiguredSink ==
  last.line_to # "None" =>
    last.line_to = (IF output_file = "None" THEN "stdout"
                                            ELSE "output_file")

\* C7: every AddAttributeContainer call builds exactly one field value map
\* when the container is an event and none otherwise, and forwards the
\* container to the store whatever its type (so that the maps number the
\* events received and the forwards number the containers received).
C7_OneMapPerEvent ==
  IsAdd =>
    /\ (last.field_values # None) = (last.container.kind = "event")
    /\ Forwarded

\* a leaf that is an identifier or a raw date time value (or list of them)
ForbiddenLeaf(value) == value.type \in {"ident", "dt", "dtlist"}

\* C8: no leaf of a field value map, nor of the tag map nested in it, is an
\* identifier or a raw date time value.
C8_NoIdentifierOrDateTimeLeaf ==
  MapProduced =>
    \A k \in DOMAIN last.field_values :
      /\ ~ForbiddenLeaf(last.field_values[k])
      /\ last.field_values[k].type = "map" =>
           \A n \in DOMAIN last.field_values[k].map :
             ~ForbiddenLeaf(last.field_values[k].map[n])

NothingResolved ==
  /\ last.event_data = None
  /\ last.event_data_stream = None
  /\ last.event_tag = None

\* the names of the non-identifier attributes of a container
NonIdentifierNames(container) ==
  {GetAttributes(container)[i][1] :
     i \in {j \in 1..Len(GetAttributes(container)) :
              GetAttributes(container)[j][2] # "ident"}}

\* C9 as claimed: with no related container resolved the keys of the map
\* are the two markers, the names of the event's non-identifier attributes
\* and message, and tag is not among them.
C9_KeysWithoutRelated ==
  (MapProduced /\ NothingResolved) =>
    /\ DOMAIN last.field_values =
         MarkerNames \cup NonIdentifierNames(last.container)
           \cup {"message"}
    /\ "tag" \notin DOMAIN last.field_values

\* C9 as amended: with no related container resolved the keys of the map
\* are the two markers, the names of the event's non-identifier
\* attributes, the generated fields display_name, filename and inode, and
\* message; tag is a key only as the name of an attribute of the event.
C9_KeysWithoutRelatedAndGenerated ==
  (MapProduced /\ NothingResolved) =>
    /\ DOMAIN last.field_values =
         MarkerNames \cup NonIdentifierNames(last.container)
           \cup {"display_name", "filename", "inode"} \cup {"message"}
    /\ ("tag" \in DOMAIN last.field_values =>
          "tag" \in NonIdentifierNames(last.container))

C9_Witness ==
  /\ MapProduced /\ NothingResolved
  /\ last.was_open /\ last.container.data # 0
  /\ "_event_data_identifier" \notin DOMAIN last.field_values
  /\ "inode" \in DOMAIN last.field_values

\* C10: every field value map has __container_type__ = "event",
\* __type__ = "AttributeContainer" and a message that is the formatter's
\* value, whatever the attributes of the containers merged into it.
C10_MarkersAndMessage ==
  MapProduced =>
    /\ last.field_values["__container_type__"] = ConstValue("event")
    /\ last.field_values["__type__"] = ConstValue("AttributeContainer")
    /\ "message" \in DOMAIN last.field_values
    /\ last.field_values["message"].src = "GetFormattedField"
    /\ last.field_values["message"].name = "message"

\* the names of the attributes of a container, None having none
AttributeNames(container) ==
  IF container = None THEN {}
  ELSE {GetAttributes(container)[i][1] :
          i \in 1..Len(GetAttributes(container))}

\* the type of the value of an attribute of a container
AttributeType(container, name) ==
  LET i == CHOOSE j \in 1..Len(GetAttributes(container)) :
             GetAttributes(container)[j][1] = name
  IN  GetAttributes(container)[i][2]

\* what the event loop makes of an attribute of the event
PrimaryValue(event, name) ==
  IF name = "date_time"
    THEN WriteSerializedDict(
           RawValue("event", name, AttributeType(event, name)))
    ELSE RawValue("event", name, AttributeType(event, name))

\* the names the event shares with its event data or event data stream
SharedNames ==
  AttributeNames(last.container)
    \cap (AttributeNames(last.event_data)
            \cup AttributeNames(last.event_data_stream))

\* C11 as claimed: under every name that the event shares with its event
\* data or its event data stream, the map holds the event's value (raw,
\* serialized for date_time).
C11_PrimaryWins ==
  MapProduced =>
    \A name \in SharedNames :
      /\ name \in DOMAIN last.field_values
      /\ last.field_values[name] = PrimaryValue(last.container, name)

\* C11 as amended: the same for every shared name under which the event
\* holds a non-identifier value, except message, which always holds the
\* formatter's value, and tag when an event tag was resolved, which then
\* holds the nested tag map.
C11_PrimaryWinsButMessageAndTag ==
  MapProduced =>
    \A name \in (SharedNames \cap NonIdentifierNames(last.container))
                  \ ({"message"} \cup (IF last.event_tag = None
                                         THEN {} ELSE {"tag"})) :
      /\ name \in DOMAIN last.field_values
      /\ last.field_values[name] = PrimaryValue(last.container, name)

C11_Witness ==
  /\ MapProduced
  /\ "timestamp" \in AttributeNames(last.event_data)
  /\ "date_time" \in AttributeNames(last.event_data)
  /\ last.field_values["timestamp"] = RawValue("event", "timestamp", "str")
  /\ last.field_values["date_time"].src = "WriteSerializedDict"

\* the names carried by any of the records merged by the last call
MergedNames ==
  AttributeNames(last.container) \cup AttributeNames(last.event_data)
    \cup AttributeNames(last.event_data_stream)

\* C12: no map holds the key _parser_chain or the key path_spec; when one
\* of the merged records carries _parser_chain the map holds parser, and
\* when one carries path_spec the map holds pathspec with the serializer's
\* output as value.
C12_RenamingTotal ==
  MapProduced =>
    /\ "_parser_chain" \notin DOMAIN last.field_values
    /\ "path_spec" \notin DOMAIN last.field_values
    /\ "_parser_chain" \in MergedNames =>
         "parser" \in DOMAIN last.field_values
    /\ "path_spec" \in MergedNames =>
         /\ "pathspec" \in DOMAIN last.field_values
         /\ last.field_values["pathspec"].src = "WriteSerializedDict"

\* the nested map of an event tag as a function of the tag alone
NestedTagMap(event_tag) ==
  [name \in MarkerNames \cup NonIdentifierNames(event_tag) |->
     IF name = "__container_type__" THEN ConstValue("event_tag")
     ELSE IF name = "__type__" THEN ConstValue("AttributeContainer")
     ELSE RawValue("event_tag", name, AttributeType(event_tag, name))]

\* C13: when an event tag was resolved, the map holds under tag a nested
\* map of the two markers of the tag and the tag's non-identifier
\* attributes, raw, which depends on the tag alone, also when the event
\* carries an attribute named tag.
C13_NestedTagMap ==
  (MapProduced /\ last.event_tag # None) =>
    /\ "tag" \in DOMAIN last.field_values
    /\ last.field_values["tag"].type = "map"
    /\ last.field_values["tag"].map = NestedTagMap(last.event_tag)

C13_Witness ==
  /\ MapProduced
  /\ last.event_tag # None
  /\ "tag" \in NonIdentifierNames(last.container)
  /\ "_event_identifier" \in AttributeNames(last.event_tag)
  /\ last.field_values["tag"].map = NestedTagMap(last.event_tag)

ReadOps ==
  {"GetNumberOfAttributeContainers", "GetAttributeContainers",
   "GetAttributeContainerByIdentifier", "GetAttributeContainerByIndex",
   "GetFirstWrittenEventSource", "GetNextWrittenEventSource",
   "GetFirstWrittenEventData", "GetNextWrittenEventData"}

\* C14: only AddAttributeContainer of an event builds a map and prints a
\* line; Open, Close, UpdateAttributeContainer (of an event too), the add
\* of another container and every reader print nothing; a reader returns
\* what the real storage writer answered and leaves the store, the
\* lifecycle state and the sink as they were.
C14_OnlyEventAddPrints ==
  /\ [](~IsEventAdd =>
          /\ last.field_values = None
          /\ last.emit = "none"
          /\ last.line_to = "None")
  /\ [][last'.op \in ReadOps =>
          /\ UNCHANGED <<output_file, store_open, temp_file, store>>
          /\ last'.result
               = RealStorageWriterRead(last'.op, last'.args[1],
                                       last'.args[2]).result
          /\ last'.raised
               = RealStorageWriterRead(last'.op, last'.args[1],
                                       last'.args[2]).raised]_vars

C14_Witness ==
  /\ last.op = "GetAttributeContainerByIdentifier"
  /\ last.result # None
  /\ last.result = store[last.args[1]][last.args[2]]
  /\ store["event"] # <<>>
  /\ last.line_to = "None"

\* what the store holds under an identifier, None when it holds nothing
Held(container_type, identifier) ==
  IF identifier = 0 \/ identifier > Len(store[container_type]) THEN None
  ELSE store[container_type][identifier]

\* the lookup of container_type of the last call raised
LookupRaised(container_type) ==
  ~last.was_open \/ last.lookup_fault = container_type

\* C15: a lookup without identifier, one that raises and one that finds
\* nothing each leave their record None, and the call goes on to merge and
\* to the try block; the event data stream is looked up only with event
\* data resolved; the event tag is looked up whatever became of the event
\* data.  An add of an event leaves the other container types of the store
\* alone, so the store after the call is the store the lookups saw.
C15_BestEffortLookups ==
  IsEventAdd =>
    /\ last.event_data =
         IF LookupRaised("event_data") THEN None
         ELSE Held("event_data", last.container.data)
    /\ last.event_data_stream =
         IF last.event_data = None \/ LookupRaised("event_data_stream")
           THEN None
         ELSE Held("event_data_stream", last.event_data.stream)
    /\ last.event_tag =
         IF LookupRaised("event_tag") THEN None
         ELSE Held("event_tag", last.container.tag)
    /\ last.raised \notin {"None", "FormatError"} => Forwarded
    /\ last.raised # "FormatError" => MapProduced /\ last.emit # "none"
    /\ last.lookup_fault # NoField => MapProduced /\ last.emit # "none"

C15_Witness ==
  /\ IsEventAdd
  /\ last.lookup_fault = "event_data"
  /\ Held("event_data", last.container.data) # None
  /\ last.event_data = None
  /\ last.event_tag # None
  /\ last.emit = "ok"
  /\ Stored

\* C16: each of display_name, filename and inode is in the map; a null
\* under such a name is the formatter's answer, a null that the merges
\* left there having been recomputed; a non-null value that the event
\* holds under such a name stays.
C16_GeneratedFieldsRecomputed ==
  MapProduced =>
    \A field_name \in {"display_name", "filename", "inode"} :
      /\ field_name \in DOMAIN last.field_values
      /\ last.field_values[field_name].type = "null" =>
           last.field_values[field_name].src = "GetFormattedField"
      /\ field_name \in NonIdentifierNames(last.container) =>
           last.field_values[field_name]
             = PrimaryValue(last.container, field_name)

\* the keys under which the event data stream loop stores
StreamKeys ==
  {IF name = "path_spec" THEN "pathspec" ELSE name :
     name \in AttributeNames(last.event_data_stream)}

\* the keys that the steps after the event data loop assign whatever the
\* map holds
LaterAssignedKeys ==
  StreamKeys \cup NonIdentifierNames(last.container) \cup {"message"}
    \cup (IF last.event_tag = None THEN {} ELSE {"tag"})

\* the event data loop keeps an attribute of this name and type
EventDataKept(name, type) ==
  /\ type \notin {"ident", "dt", "dtlist"}
  /\ name = "_parser_chain" \/ ~StartsWithUnderscore(name)

\* C17: an attribute of the resolved event data gets a key exactly when
\* its value is no identifier, no date time value, no list of date time
\* values and its name does not start with _ or is _parser_chain; the
\* value under the key is what GetFormattedField answered for the
\* attribute's name, and no value of the map is a raw event data value.
\* Keys that a later step assigns are judged by presence only, keys that
\* another step provides are not judged for absence.
C17_EventDataFiltered ==
  (MapProduced /\ last.event_data # None) =>
    /\ \A k \in DOMAIN last.field_values :
         last.field_values[k].src # "event_data"
    /\ \A name \in AttributeNames(last.event_data) :
         LET type == AttributeType(last.event_data, name)
             key == IF name = "_parser_chain" THEN "parser" ELSE name
         IN  IF EventDataKept(name, type)
               THEN /\ key \in DOMAIN last.field_values
                    /\ key \notin LaterAssignedKeys =>
                         /\ last.field_values[key].src = "GetFormattedField"
                         /\ last.field_values[key].name = name
               ELSE key \notin LaterAssignedKeys \cup MarkerNames
                       \cup {"display_name", "filename", "inode"} =>
                      key \notin DOMAIN last.field_values

C17_Witness ==
  /\ MapProduced
  /\ last.event_data # None
  /\ "_internal" \in AttributeNames(last.event_data)
  /\ "_internal" \notin DOMAIN last.field_values
  /\ "parser" \in DOMAIN last.field_values
  /\ last.field_values["parser"].name = "_parser_chain"
  /\ last.field_values["name"].src = "GetFormattedField"

\* C18: in an add of an event the real storage writer is called only after
\* the map was built and the try block has run, also when the real storage
\* writer then raises; a call that returns normally has projected the
\* event and has it in the store; and the step of an add changes the store
\* by its own container at most, appended to the others of its type.
C18_ProjectThenForward ==
  /\ [](IsEventAdd =>
          /\ Forwarded => MapProduced /\ last.emit \in {"ok", "raised"}
          /\ last.raised = "None" =>
               MapProduced /\ last.store_result = "ok" /\ Stored)
  /\ [][last'.op = "AddAttributeContainer" =>
          \/ store' = store
          \/ /\ last'.store_result = "ok"
             /\ store' = [store EXCEPT ![last'.container.kind] =
                            Append(@, last'.container)]]_vars

C18_Witness ==
  /\ IsEventAdd
  /\ last.emit = "ok"
  /\ last.line_to # "None"
  /\ last.store_result = "StoreError"
  /\ last.event_data # None

\* C19: Closed is terminal.  Only Open gives the writer an open store, so
\* no add or update succeeds after Close exactly if an Open of a closed
\* writer, the temporary file gone, leaves the store closed.
C19_ClosedIsTerminal ==
  (last.op = "Open" /\ last.was_closed) => ~store_open

\* the containers of a type that the store holds
StoredContainers(container_type) ==
  {store[container_type][i] : i \in 1..Len(store[container_type])}

\* C20: an add of an event resolves its related containers from the store
\* as it is when the call is made: an identifier that the store does not
\* hold yet resolves to None, and the map then has no nested tag map;
\* and a step that is not an add of an event, such as the later add of the
\* event data, stream or tag or an update of the event, prints no line, so
\* that the one line of the add is all that an event ever gets.
C20_ProjectedOnceFromStoreAtCall ==
  [][/\ (last'.op = "AddAttributeContainer"
           /\ last'.container.kind = "event") =>
          /\ last'.event_data \in {None} \cup StoredContainers("event_data")
          /\ last'.event_data_stream
               \in {None} \cup StoredContainers("event_data_stream")
          /\ last'.event_tag \in {None} \cup StoredContainers("event_tag")
          /\ last'.container.data > Len(store["event_data"]) =>
               last'.event_data = None
          /\ last'.container.tag > Len(store["event_tag"]) =>
               /\ last'.event_tag = None
               /\ last'.field_values # None =>
                    \A k \in DOMAIN last'.field_values :
                      last'.field_values[k].src # "event_tag"
          /\ last'.emit \in {"none", "ok", "raised"}
     /\ ~(last'.op = "AddAttributeContainer"
            /\ last'.container.kind = "event") =>
          /\ last'.emit = "none"
          /\ last'.line_to = "None"
          /\ last'.field_values = None]_vars

\* the tag of an event that was added or updated before the store held a
\* tag has just been added, and no line is printed
C20_Witness ==
  /\ IsAdd
  /\ last.container.kind = "event_tag"
  /\ last.store_result = "ok"
  /\ Len(store["event_tag"]) = 1
  /\ \E i \in 1..Len(store["event"]) : store["event"][i].tag = 1
  /\ last.line_to = "None"
====
